---------------------------- MODULE Spec2Model ----------------------------
(***************************************************************************)
(* Model of the "Print Sheets" pushbutton of pyRevit                       *)
(* (pyRevit.tab/Drawing Set.panel/Print Sheets.pushbutton/script.py).      *)
(*                                                                         *)
(* Strings are sequences of Unicode code points, so that the character     *)
(* order, the marker character and the regular expression of the script    *)
(* are computed and not assumed.  A sheet is an element id 1..n of the     *)
(* host document.                                                          *)
(***************************************************************************)
EXTENDS Integers, Sequences, FiniteSets, TLC

VARIABLES
    \* ---- host document -------------------------------------------------
    sheetNumber,        \* ViewSheet.SheetNumber of every sheet of the document
    sheetName,          \* ViewSheet.Name
    canBePrinted,       \* ViewSheet.CanBePrinted
    schedFile,          \* the exported schedule file: whether it can be read, its raw lines
    viewSheetSets,      \* saved ViewSheetSets: name -> set of sheets
    printJobs,          \* print jobs submitted to the host, in order
    \* ---- dialog --------------------------------------------------------
    scheduled_sheets,   \* PrintSheetsWindow._scheduled_sheets
    sheet_list,         \* sheets_lb.ItemsSource
    reverse_print,      \* reverse_cb.IsChecked
    show_placeholders,  \* placeholder_cb.IsChecked
    include_placeholders, \* indexspace_cb.IsChecked
    index_start,        \* int(indexstart_tb.Text or 0)
    index_digits,       \* int(index_slider.Value)
    naming_format,      \* namingformat_cb.SelectedIndex (0-based)
    is_linked,          \* selected_doc.IsLinked
    \* ---- the running handler -------------------------------------------
    pc,                 \* position of the running routine
    target_sheets,      \* argument of the print routines
    idx,                \* loop position (0-based) in target_sheets
    original_sheetnums, \* local of _print_combined_sheets_in_order
    sheet_set,          \* local DB.ViewSet of _print_combined_sheets_in_order
    groupStart,         \* sheet numbers and sheet sets when the TransactionGroup started
    sched_data,         \* result of _get_schedule_text_data
    ordered,            \* result of _order_sheets_by_schedule_data
    print_mgr,          \* local print_mgr of the print routines
    \* ---- history -------------------------------------------------------
    events,             \* the steps the running routine has taken
    startNumber,        \* the sheet numbers when the routine started
    \* ---- the documents' print settings ----------------------------------
    currentPrintSetting, \* PrintManager.PrintSetup.CurrentPrintSetting of each document
    \* ---- dialog: documents, schedules, print settings, combine ----------
    doc_schedules,      \* the sheet index schedules of each document
    selected_schedule,  \* schedules_cb.SelectedItem
    selected_print_setting, \* printsettings_cb.SelectedItem
    init_psettings,     \* PrintSheetsWindow._init_psettings
    combine_print,      \* combine_cb.IsChecked
    combine_enabled,    \* combine_cb.IsEnabled
    dialog_open,        \* the window has not been closed
    selected_sheets,    \* sheets_lb.SelectedItems
    \* ---- history of the dialog ------------------------------------------
    last_click,         \* what the last click on the print button found
    startSets,          \* the sheet sets when the dialog opened
    startSetting,       \* the current print settings when the dialog opened
    settingAtSelection  \* the current print setting of a document when it was selected

docVars == <<sheetNumber, sheetName, canBePrinted, schedFile, viewSheetSets, printJobs>>
dlgVars == <<scheduled_sheets, sheet_list, reverse_print, show_placeholders,
             include_placeholders, index_start, index_digits, naming_format, is_linked>>
runVars == <<pc, target_sheets, idx, original_sheetnums, sheet_set, groupStart,
             sched_data, ordered, print_mgr>>
histVars == <<events, startNumber>>
sessKept == <<doc_schedules, selected_schedule, selected_print_setting, init_psettings,
              combine_print, combine_enabled, dialog_open, last_click, startSets,
              startSetting, settingAtSelection>>
sessVars == <<sessKept, selected_sheets>>
vars == <<docVars, dlgVars, runVars, histVars, currentPrintSetting, sessVars>>

---------------------------------------------------------------------------
(* Characters                                                              *)

\* Non Printable Char: U+200E LEFT-TO-RIGHT MARK
NPC == 8206
\* '\t' of the match pattern
TAB == 9
\* '.', which the match pattern reads as "any character"
DOT == 46
\* ' ', the character NamingFormat.space replaces
SPACE == 32
\* '_'
UNDERSCORE == 95
\* '0', the fill character and first digit of INDEX_FORMAT
ZERO == 48
\* '\n'
LF == 10
\* '\\', the separator os.path.join inserts on the host's platform
BACKSLASH == 92

\* letters and signs the inputs are drawn from
chA == <<65>>
chB == <<66>>
chX == <<88>>
\* a character above U+200E in code point order (U+56F3)
CJK == <<22259>>

Max(a, b) == IF a >= b THEN a ELSE b
Min(a, b) == IF a <= b THEN a ELSE b

\* s < t in ascending character (code point) order
RECURSIVE StrLess(_, _)
StrLess(s, t) ==
    IF t = <<>> THEN FALSE
    ELSE IF s = <<>> THEN TRUE
    ELSE IF Head(s) # Head(t) THEN Head(s) < Head(t)
    ELSE StrLess(Tail(s), Tail(t))

\* NPC * n
RECURSIVE Repeat(_, _)
Repeat(c, n) == IF n <= 0 THEN <<>> ELSE <<c>> \o Repeat(c, n - 1)

IsPrefix(p, s) == Len(p) <= Len(s) /\ SubSeq(s, 1, Len(p)) = p

\* str.replace(old, '', 1): only the first occurrence is removed
StrRemoveFirst(s, c) ==
    IF \E k \in 1..Len(s) : s[k] = c
    THEN LET k == CHOOSE i \in 1..Len(s) : s[i] = c /\ \A j \in 1..(i - 1) : s[j] # c
         IN SubSeq(s, 1, k - 1) \o SubSeq(s, k + 1, Len(s))
    ELSE s

\* str.replace(old, '') for a one-character old: every occurrence is removed
RECURSIVE StrRemove(_, _)
StrRemove(s, c) ==
    IF s = <<>> THEN <<>>
    ELSE IF Head(s) = c THEN StrRemove(Tail(s), c)
    ELSE <<Head(s)>> \o StrRemove(Tail(s), c)

\* str.replace(a, b) for one-character a and b
StrReplaceChar(s, a, b) == [k \in 1..Len(s) |-> IF s[k] = a THEN b ELSE s[k]]

IsWhitespace(c) == c \in {SPACE, TAB, LF, 13, 11, 12}

\* str.strip()
RECURSIVE LStrip(_)
LStrip(s) == IF s # <<>> /\ IsWhitespace(Head(s)) THEN LStrip(Tail(s)) ELSE s
RECURSIVE RStrip(_)
RStrip(s) ==
    IF s # <<>> /\ IsWhitespace(s[Len(s)]) THEN RStrip(SubSeq(s, 1, Len(s) - 1)) ELSE s
Strip(s) == RStrip(LStrip(s))

Range(f) == {f[k] : k \in DOMAIN f}

\* the sequences without repetition of length n over S
RECURSIVE Injections(_, _)
Injections(S, n) ==
    IF n = 0 THEN {<<>>}
    ELSE UNION {{Append(q, x) : x \in S \ Range(q)} : q \in Injections(S, n - 1)}

\* the sequences of length <= n over S
RECURSIVE SeqsUpTo(_, _)
SeqsUpTo(S, n) ==
    IF n = 0 THEN {<<>>}
    ELSE LET shorter == SeqsUpTo(S, n - 1)
         IN shorter \cup {Append(q, x) : q \in {r \in shorter : Len(r) = n - 1}, x \in S}

---------------------------------------------------------------------------
(* Bounds                                                                  *)

\* sheets in the document of the combined print and of the cleanup
MaxSheets == 3
\* sheets handed to _order_sheets_by_schedule_data
MaxOrderSheets == 3
\* lines of the exported schedule
MaxSchedLines == 3
\* sheets of the schedule in the individual print
MaxPrintSheets == 3

---------------------------------------------------------------------------
(* The list item the dialog keeps per sheet                                *)

\* ViewSheetListItem.__init__: name, number and printable are read once
ViewSheetListItem(s) ==
    [sheet |-> s, name |-> sheetName[s], number |-> sheetNumber[s],
     printable |-> canBePrinted[s], print_index |-> <<ZERO>>]

---------------------------------------------------------------------------
(* Sheet ordering                                                          *)

\* re.match(r'(^|.*\t){}(\t.*|$)'.format(number), data_line): the number is
\* pasted into the pattern unescaped, so its '.' matches any character but a
\* line break; the part before it is empty or ends in a tab, the part after
\* it is empty or starts with a tab.
ReMatch(number, data_line) ==
    \E i \in 1..(Len(data_line) - Len(number) + 1) :
        /\ i = 1 \/ data_line[i - 1] = TAB
        /\ \A k \in 1..Len(number) :
              IF number[k] = DOT THEN data_line[i + k - 1] # LF
              ELSE data_line[i + k - 1] = number[k]
        /\ i + Len(number) - 1 = Len(data_line) \/ data_line[i + Len(number)] = TAB

\* _get_schedule_text_data: the stripped lines, or [] when the file cannot be read
GetScheduleTextData(file) ==
    IF ~file.readable THEN <<>>
    ELSE [k \in 1..Len(file.lines) |-> Strip(file.lines[k])]

\* the line_no (0-based) at which the inner loop breaks, -1 when it never does
FirstMatch(number, data) ==
    IF \E k \in 1..Len(data) : ReMatch(number, data[k])
    THEN (CHOOSE k \in 1..Len(data) :
            /\ ReMatch(number, data[k])
            /\ \A j \in 1..(k - 1) : ~ReMatch(number, data[j])) - 1
    ELSE -1

\* ordered_sheets_dict after the first k sheets of sheet_list
RECURSIVE OrderedSheetsDict(_, _, _, _)
OrderedSheetsDict(sheets, k, numbers, data) ==
    IF k = 0 THEN [x \in {} |-> 0]
    ELSE LET d == OrderedSheetsDict(sheets, k - 1, numbers, data)
             line_no == FirstMatch(numbers[sheets[k]], data)
         IN IF line_no < 0 THEN d
            ELSE [x \in (DOMAIN d) \cup {line_no} |-> IF x = line_no THEN sheets[k] ELSE d[x]]

\* the keys in the order the dictionary happens to hold them (here: descending)
KeysUnsorted(S) ==
    LET RECURSIVE Desc(_)
        Desc(T) == IF T = {} THEN <<>>
                   ELSE LET m == CHOOSE x \in T : \A y \in T : y <= x
                        IN <<m>> \o Desc(T \ {m})
    IN Desc(S)

\* sorted(ordered_sheets_dict.keys())
SortedKeys(S) ==
    LET RECURSIVE Asc(_)
        Asc(T) == IF T = {} THEN <<>>
                  ELSE LET m == CHOOSE x \in T : \A y \in T : x <= y
                       IN <<m>> \o Asc(T \ {m})
    IN Asc(S)

\* _order_sheets_by_schedule_data without the early return on empty data
OrderNoEarlyReturn(sheets, numbers, data) ==
    LET d == OrderedSheetsDict(sheets, Len(sheets), numbers, data)
        sorted_keys == SortedKeys(DOMAIN d)
    IN [k \in 1..Len(sorted_keys) |-> d[sorted_keys[k]]]

\* _order_sheets_by_schedule_data, given the schedule data
OrderSheetsByScheduleData(sheets, numbers, data) ==
    IF data = <<>> THEN sheets
    ELSE LET d == OrderedSheetsDict(sheets, Len(sheets), numbers, data)
             sorted_keys == SortedKeys(DOMAIN d)
         IN [k \in 1..Len(sorted_keys) |-> d[sorted_keys[k]]]

\* sheet numbers of the ordering runs: plain, with a '.', and a two-letter one
OrderNumberPool == {chA, chB, <<65, DOT>>, <<65, 66>>}
\* raw lines of the exported schedule: one and two columns, a trailing tab, a blank
SchedLinePool ==
    {chA, <<66, TAB>>, <<65, TAB, 66>>, <<66, TAB, 65>>, <<65, 66>>, chX, <<SPACE>>}

EmptyFun == [x \in {} |-> 0]

\* the documents of documents_cb: revit.doc and a document linked into it
Host == "host"
Linked == "linked"
Documents == {Host, Linked}

\* selected_doc
SelectedDoc == IF is_linked THEN Linked ELSE Host

\* None, where a print setting is expected
NoSetting == [doc |-> "none", name |-> "None"]
\* the DB.InSessionPrintSetting of a document
InSessionOf(d) == [doc |-> d, name |-> "InSession"]
\* the elements of selected_doc.GetPrintSettingIds()
NamedSettings(d) ==
    IF d = Host THEN {[doc |-> Host, name |-> "A3"], [doc |-> Host, name |-> "A4"]}
    ELSE {[doc |-> Linked, name |-> "A3"]}
\* isinstance(setting, DB.InSessionPrintSetting)
IsInSession(setting) == setting.name = "InSession"

\* None, where an item of printsettings_cb is expected
NoItem == [name |-> "", print_settings |-> NoSetting, allows_variable_paper |-> FALSE]
PrintSettingListItem(setting) ==
    [name |-> IF IsInSession(setting) THEN "<In Session>" ELSE setting.name,
     print_settings |-> setting,
     allows_variable_paper |-> FALSE]
VariablePaperPrintSettingListItem ==
    [name |-> "<Variable Paper Size>",
     print_settings |-> NoSetting,
     allows_variable_paper |-> TRUE]

\* None, where a schedule is expected
NoSchedule == [doc |-> "none", k |-> 0]

\* no click on the print button yet
NoClick == [clicked |-> FALSE, listed |-> 0, targets |-> 0, combine |-> FALSE,
            confirmed |-> FALSE]

\* a routine runs on the host document, away from the dialog: print setting A4
\* is selected while A3 is the document's current one
IdleSession ==
    /\ currentPrintSetting =
          [d \in Documents |-> [doc |-> d, name |-> "A3"]]
    /\ doc_schedules = [d \in Documents |-> <<>>]
    /\ selected_schedule = NoSchedule
    /\ selected_print_setting = PrintSettingListItem([doc |-> Host, name |-> "A4"])
    /\ init_psettings = [doc |-> Host, name |-> "A3"]
    /\ combine_print = FALSE
    /\ combine_enabled = TRUE
    /\ dialog_open = FALSE
    /\ selected_sheets = <<>>
    /\ last_click = NoClick
    /\ startSets = viewSheetSets
    /\ startSetting = currentPrintSetting
    /\ settingAtSelection = [doc |-> Host, name |-> "A3"]

\* the dialog before any schedule is loaded
IdleDialog ==
    /\ scheduled_sheets = <<>>
    /\ sheet_list = <<>>
    /\ reverse_print = FALSE
    /\ show_placeholders = FALSE
    /\ include_placeholders = FALSE
    /\ index_start = 0
    /\ index_digits = 2
    /\ naming_format = 0
    /\ is_linked = FALSE

\* no routine has run yet
IdleRun ==
    /\ target_sheets = <<>>
    /\ idx = 0
    /\ original_sheetnums = <<>>
    /\ sheet_set = {}
    /\ groupStart = <<>>
    /\ sched_data = <<>>
    /\ ordered = <<>>
    /\ print_mgr = "unset"
    /\ events = <<>>

InitOrder ==
    /\ \E n \in 1..MaxOrderSheets :
          /\ sheetNumber \in Injections(OrderNumberPool, n)
          /\ sheetName = [s \in 1..n |-> chX]
          /\ canBePrinted = [s \in 1..n |-> TRUE]
    /\ schedFile \in {[readable |-> FALSE, lines |-> <<>>]}
                      \cup {[readable |-> TRUE, lines |-> l] :
                               l \in SeqsUpTo(SchedLinePool, MaxSchedLines)}
    /\ viewSheetSets = EmptyFun
    /\ printJobs = <<>>
    /\ IdleDialog
    /\ IdleRun
    /\ pc = "order"
    /\ startNumber = sheetNumber
    /\ IdleSession

\* _get_ordered_schedule_sheets: the sheets of the schedule, in element order
ScheduleSheets == [s \in 1..Len(sheetNumber) |-> s]

\* _order_sheets_by_schedule_data(schedule_view, sheets)
OrderSheets ==
    /\ pc = "order"
    /\ sched_data' = GetScheduleTextData(schedFile)
    /\ ordered' = OrderSheetsByScheduleData(ScheduleSheets, sheetNumber, sched_data')
    /\ pc' = "ordered"
    /\ UNCHANGED <<docVars, dlgVars, sessVars, currentPrintSetting, histVars>>
    /\ UNCHANGED <<target_sheets, idx, original_sheetnums, sheet_set, groupStart,
                   print_mgr>>

NextOrder == OrderSheets

SpecOrder == InitOrder /\ [][NextOrder]_vars

---------------------------------------------------------------------------
(* The host's rule for sheet numbers                                       *)

\* ViewSheet.SheetNumber's setter raises when another sheet of the document
\* already has the number
NumberInUse(numbers, s, v) == \E t \in DOMAIN numbers : t # s /\ numbers[t] = v

\* what TransactionGroup.RollBack and Transaction.RollBack leave of the document
RolledBack(start) ==
    /\ sheetNumber' = start.numbers
    /\ viewSheetSets' = start.sets
    /\ currentPrintSetting' = start.setting

---------------------------------------------------------------------------
(* Shift-click: cleanup_sheetnumbers                                       *)

\* the numbers after the loop of cleanup_sheetnumbers has handled the first k
\* sheets; raised is set once a setter has raised
RECURSIVE CleanupLoop(_, _)
CleanupLoop(numbers, k) ==
    IF k = 0 THEN [numbers |-> numbers, raised |-> FALSE]
    ELSE LET before == CleanupLoop(numbers, k - 1)
             v == StrRemove(before.numbers[k], NPC)
         IN IF before.raised THEN before
            ELSE IF v # before.numbers[k] /\ NumberInUse(before.numbers, k, v)
                 THEN [numbers |-> before.numbers, raised |-> TRUE]
                 ELSE [numbers |-> [before.numbers EXCEPT ![k] = v], raised |-> FALSE]

\* sheet numbers of the cleanup runs: the marker in front, twice, inside, behind
CleanupNumberPool ==
    {chA, <<NPC, 65>>, <<NPC, NPC, 66>>, <<65, NPC, 66>>, <<66, NPC>>}

InitCleanup ==
    /\ \E n \in 1..MaxSheets :
          /\ sheetNumber \in Injections(CleanupNumberPool, n)
          /\ sheetName = [s \in 1..n |-> chX]
          /\ canBePrinted \in [1..n -> BOOLEAN]
    /\ schedFile = [readable |-> FALSE, lines |-> <<>>]
    /\ viewSheetSets = EmptyFun
    /\ printJobs = <<>>
    /\ IdleDialog
    /\ IdleRun
    /\ IdleSession
    /\ pc = "shiftclick"
    /\ startNumber = sheetNumber

\* cleanup_sheetnumbers(doc), run to its end: the transaction commits
CleanupSheetnumbers ==
    /\ pc \in {"shiftclick", "cleaned"}
    /\ Len(events) < 2
    /\ ~CleanupLoop(sheetNumber, Len(sheetNumber)).raised
    /\ sheetNumber' = CleanupLoop(sheetNumber, Len(sheetNumber)).numbers
    /\ events' = Append(events, [step |-> "cleanup", sheet |-> 0, numbers |-> sheetNumber'])
    /\ pc' = "cleaned"
    /\ UNCHANGED <<sheetName, canBePrinted, schedFile, viewSheetSets, printJobs>>
    /\ UNCHANGED <<dlgVars, sessVars, currentPrintSetting, startNumber>>
    /\ UNCHANGED <<target_sheets, idx, original_sheetnums, sheet_set, groupStart,
                   sched_data, ordered, print_mgr>>

\* cleanup_sheetnumbers(doc) when a setter raises: the transaction rolls back
CleanupRaises ==
    /\ pc \in {"shiftclick", "cleaned"}
    /\ CleanupLoop(sheetNumber, Len(sheetNumber)).raised
    /\ pc' = "cleanup_raised"
    /\ UNCHANGED <<docVars, dlgVars, sessVars, currentPrintSetting, histVars>>
    /\ UNCHANGED <<target_sheets, idx, original_sheetnums, sheet_set, groupStart,
                   sched_data, ordered, print_mgr>>

NextCleanup == CleanupSheetnumbers \/ CleanupRaises

SpecCleanup == InitCleanup /\ [][NextCleanup]_vars

NotMarker(c) == c # NPC

\* C3: after cleanup_sheetnumbers has completed, no sheet number holds the
\* marker U+200E, every sheet number is its original without the markers (the
\* other characters kept, in order), and a second cleanup changes nothing.
C3_CleanupRemovesMarkers ==
    (pc = "cleaned") =>
        /\ \A s \in DOMAIN sheetNumber :
              /\ NPC \notin Range(sheetNumber[s])
              /\ sheetNumber[s] = SelectSeq(startNumber[s], NotMarker)
        /\ \A k \in 2..Len(events) : events[k].numbers = events[1].numbers

\* a second cleanup has run on a document that had a number with two markers
C3_Witness ==
    /\ pc = "cleaned"
    /\ Len(events) = 2
    /\ \E s \in DOMAIN startNumber :
          Cardinality({k \in 1..Len(startNumber[s]) : startNumber[s][k] = NPC}) = 2

---------------------------------------------------------------------------
(* Combined printing: _print_combined_sheets_in_order                      *)

\* sheetsetname
OrderedPrintSet == "OrderedPrintSet"

\* a step of the routine, for the history
Step(name, s) == [step |-> name, sheet |-> s, numbers |-> <<>>]

\* the positions of the routine after the print manager was obtained, in the
\* order the code takes them, with the sheet numbers restored before the
\* print job is submitted
CombinedStepsRestoreFirst ==
    <<"set_settings", "fix_numbers", "remove_set", "update_set", "job_config",
      "restore", "submit", "returned">>

\* the positions of the routine after the print manager was obtained, in the
\* order the code takes them
CombinedSteps ==
    <<"set_settings", "fix_numbers", "remove_set", "update_set", "job_config",
      "submit", "restore", "returned">>

\* the position that follows position p
StepAfter(p) ==
    LET k == CHOOSE i \in 1..Len(CombinedSteps) : CombinedSteps[i] = p
    IN CombinedSteps[k + 1]

\* the number the restore loop writes back: the current number without markers
RestoredNumberByCleanup(current, originals, k) == StrRemove(current, NPC)

\* the number a restore loop writes back that leaves the number as it is
RestoredNumberKept(current, originals, k) == current

\* the number the restore loop writes back to the k-th target sheet
RestoredNumber(current, originals, k) == originals[k]

\* NPC * (idx + 1) + rvtsheet.SheetNumber
FixedNumber(i, number) == Repeat(NPC, i + 1) \o number

\* the sheets of a set in ascending order of their sheet numbers
RECURSIVE SortByNumber(_, _)
SortByNumber(S, numbers) ==
    IF S = {} THEN <<>>
    ELSE LET m == CHOOSE x \in S : \A y \in S \ {x} : ~StrLess(numbers[y], numbers[x])
         IN <<m>> \o SortByNumber(S \ {m}, numbers)

Reverse(q) == [k \in 1..Len(q) |-> q[Len(q) + 1 - k]]

\* the order in which the host prints a sheet set into the combined file: by
\* sheet number, reversed when PrintOrderReverse is set
HostPrintOrder(S, numbers, reversed) ==
    IF reversed THEN Reverse(SortByNumber(S, numbers)) ELSE SortByNumber(S, numbers)

\* op.join(r'C:\\', 'Ordered Sheet Set.pdf'), as a token
CombinedFileName == <<"C:", "Ordered Sheet Set.pdf">>

\* sheet numbers of the combined print: plain, with a marker left behind, and
\* one that starts with a character above the marker
CombinedNumberPool == {chA, chB, <<NPC, 66>>, CJK}

\* the target sheets of a print: the list items of the first m sheets
TargetItems(m) == [k \in 1..m |-> ViewSheetListItem(k)]

Init ==
    /\ \E n \in 1..MaxSheets :
          /\ sheetNumber \in Injections(CombinedNumberPool, n)
          /\ sheetName = [s \in 1..n |-> chX]
          /\ canBePrinted \in [1..n -> BOOLEAN]
          /\ \E m \in 1..n : target_sheets = TargetItems(m)
    /\ schedFile = [readable |-> FALSE, lines |-> <<>>]
    /\ viewSheetSets \in {EmptyFun, [x \in {OrderedPrintSet} |-> {1}]}
    /\ printJobs = <<>>
    /\ scheduled_sheets = <<>>
    /\ sheet_list = target_sheets
    /\ reverse_print \in BOOLEAN
    /\ show_placeholders = TRUE
    /\ include_placeholders = TRUE
    /\ index_start = 0
    /\ index_digits = 2
    /\ naming_format = 0
    /\ is_linked = FALSE
    /\ idx = 0
    /\ original_sheetnums = <<>>
    /\ sheet_set = {}
    /\ groupStart = <<>>
    /\ sched_data = <<>>
    /\ ordered = <<>>
    /\ print_mgr = "unset"
    /\ events = <<>>
    /\ pc = "combined"
    /\ startNumber = sheetNumber
    /\ IdleSession

\* what a transaction or a transaction group rolls back to
DocumentSnapshot ==
    [numbers |-> sheetNumber, sets |-> viewSheetSets, setting |-> currentPrintSetting]

\* _get_printmanager: the print manager, or None after the error was logged
GetPrintManagerResult(available) == IF available THEN "available" ELSE "none"

\* where a print routine goes on after _get_printmanager when it does not
\* test the print manager
AfterGetPrintManagerUnchecked(manager, first) == first

\* where a print routine goes on after _get_printmanager: without a print
\* manager it returns
AfterGetPrintManager(manager, first) ==
    IF manager = "none" THEN "no_print_manager" ELSE first

\* lines 474-478: the print manager is obtained and the transaction group
\* starts; without a print manager the routine returns
CombinedGetPrintManager ==
    /\ pc = "combined"
    /\ groupStart' = DocumentSnapshot
    /\ \E available \in BOOLEAN :
          /\ print_mgr' = GetPrintManagerResult(available)
          /\ pc' = AfterGetPrintManager(print_mgr', CombinedSteps[1])
    /\ UNCHANGED <<docVars, dlgVars, sessVars, currentPrintSetting, histVars>>
    /\ UNCHANGED <<target_sheets, idx, original_sheetnums, sheet_set, sched_data, ordered>>

\* lines 479-488: transaction 'Set Printer Settings'
SetPrinterSettings ==
    /\ pc = "set_settings"
    /\ events' = Append(events, Step("set_print_settings", 0))
    /\ currentPrintSetting' =
          [currentPrintSetting EXCEPT ![SelectedDoc] = selected_print_setting.print_settings]
    /\ sheet_set' = {}
    /\ original_sheetnums' = <<>>
    /\ idx' = 0
    /\ pc' = StepAfter(pc)
    /\ UNCHANGED <<docVars, dlgVars, sessVars, startNumber>>
    /\ UNCHANGED <<target_sheets, groupStart, sched_data, ordered, print_mgr>>

\* lines 491-497: one turn of the loop of transaction 'Fix Sheet Numbers'
FixSheetNumber ==
    /\ pc = "fix_numbers"
    /\ idx < Len(target_sheets)
    /\ LET sheet == target_sheets[idx + 1]
           rvtsheet == sheet.sheet
           v == FixedNumber(idx, sheetNumber[rvtsheet])
       IN /\ ~NumberInUse(sheetNumber, rvtsheet, v)
          /\ original_sheetnums' = Append(original_sheetnums, sheetNumber[rvtsheet])
          /\ sheetNumber' = [sheetNumber EXCEPT ![rvtsheet] = v]
          /\ sheet_set' = IF sheet.printable THEN sheet_set \cup {rvtsheet} ELSE sheet_set
          /\ events' = Append(events, Step("rename", rvtsheet))
    /\ idx' = idx + 1
    /\ UNCHANGED <<sheetName, canBePrinted, schedFile, viewSheetSets, printJobs>>
    /\ UNCHANGED <<dlgVars, sessVars, currentPrintSetting, startNumber>>
    /\ UNCHANGED <<pc, target_sheets, groupStart, sched_data, ordered, print_mgr>>

\* lines 494-495 when the host refuses the number: the exception leaves the
\* transaction and the transaction group, which roll back
FixSheetNumberRaises ==
    /\ pc = "fix_numbers"
    /\ idx < Len(target_sheets)
    /\ LET rvtsheet == target_sheets[idx + 1].sheet
       IN NumberInUse(sheetNumber, rvtsheet, FixedNumber(idx, sheetNumber[rvtsheet]))
    /\ RolledBack(groupStart)
    /\ pc' = "raised"
    /\ UNCHANGED <<sheetName, canBePrinted, schedFile, printJobs>>
    /\ UNCHANGED <<dlgVars, sessVars, histVars>>
    /\ UNCHANGED <<target_sheets, idx, original_sheetnums, sheet_set, groupStart,
                   sched_data, ordered, print_mgr>>

\* the loop of lines 491-497 is over and transaction 'Fix Sheet Numbers' commits
FixSheetNumbersCommit ==
    /\ pc = "fix_numbers"
    /\ idx = Len(target_sheets)
    /\ pc' = StepAfter(pc)
    /\ UNCHANGED <<docVars, dlgVars, sessVars, currentPrintSetting, histVars>>
    /\ UNCHANGED <<target_sheets, idx, original_sheetnums, sheet_set, groupStart,
                   sched_data, ordered, print_mgr>>

\* lines 499-514: transaction 'Remove Previous Print Set' deletes an existing
\* sheet set of the name
RemovePreviousPrintSet ==
    /\ pc = "remove_set"
    /\ viewSheetSets' =
          [x \in (DOMAIN viewSheetSets) \ {OrderedPrintSet} |-> viewSheetSets[x]]
    /\ pc' = StepAfter(pc)
    /\ UNCHANGED <<sheetNumber, sheetName, canBePrinted, schedFile, printJobs>>
    /\ UNCHANGED <<dlgVars, sessVars, currentPrintSetting, histVars>>
    /\ UNCHANGED <<target_sheets, idx, original_sheetnums, sheet_set, groupStart,
                   sched_data, ordered, print_mgr>>

\* lines 516-522: transaction 'Update Ordered Print Set' saves the sheet set
UpdateOrderedPrintSet ==
    /\ pc = "update_set"
    /\ viewSheetSets' =
          [x \in (DOMAIN viewSheetSets) \cup {OrderedPrintSet} |->
              IF x = OrderedPrintSet THEN sheet_set ELSE viewSheetSets[x]]
    /\ events' = Append(events, Step("save_sheet_set", 0))
    /\ pc' = StepAfter(pc)
    /\ UNCHANGED <<sheetNumber, sheetName, canBePrinted, schedFile, printJobs>>
    /\ UNCHANGED <<dlgVars, sessVars, currentPrintSetting, startNumber>>
    /\ UNCHANGED <<target_sheets, idx, original_sheetnums, sheet_set, groupStart,
                   sched_data, ordered, print_mgr>>

\* lines 523-537: saving the sheet set raises; the error is logged and raised
\* again, and the transaction group rolls back
UpdateOrderedPrintSetRaises ==
    /\ pc = "update_set"
    /\ RolledBack(groupStart)
    /\ pc' = "raised"
    /\ UNCHANGED <<sheetName, canBePrinted, schedFile, printJobs>>
    /\ UNCHANGED <<dlgVars, sessVars, histVars>>
    /\ UNCHANGED <<target_sheets, idx, original_sheetnums, sheet_set, groupStart,
                   sched_data, ordered, print_mgr>>

\* lines 539-550: the print job configuration is set
SetJobConfiguration ==
    /\ pc = "job_config"
    /\ pc' = StepAfter(pc)
    /\ idx' = 0
    /\ UNCHANGED <<docVars, dlgVars, sessVars, currentPrintSetting, histVars>>
    /\ UNCHANGED <<target_sheets, original_sheetnums, sheet_set, groupStart,
                   sched_data, ordered, print_mgr>>

\* lines 541-546: setting CombinedFile raises; an alert is shown and the
\* script exits, which rolls the transaction group back
SetJobConfigurationExits ==
    /\ pc = "job_config"
    /\ RolledBack(groupStart)
    /\ pc' = "exited"
    /\ UNCHANGED <<sheetName, canBePrinted, schedFile, printJobs>>
    /\ UNCHANGED <<dlgVars, sessVars, histVars>>
    /\ UNCHANGED <<target_sheets, idx, original_sheetnums, sheet_set, groupStart,
                   sched_data, ordered, print_mgr>>

\* line 551: print_mgr.SubmitPrint() returns
SubmitPrintCombined ==
    /\ pc = "submit"
    /\ printJobs' = Append(printJobs,
          [kind |-> "combined",
           sheets |-> HostPrintOrder(viewSheetSets[OrderedPrintSet], sheetNumber,
                                     reverse_print),
           file |-> CombinedFileName])
    /\ events' = Append(events, Step("submit_print", 0))
    /\ pc' = StepAfter(pc)
    /\ idx' = 0
    /\ UNCHANGED <<sheetNumber, sheetName, canBePrinted, schedFile, viewSheetSets>>
    /\ UNCHANGED <<dlgVars, sessVars, currentPrintSetting, startNumber>>
    /\ UNCHANGED <<target_sheets, original_sheetnums, sheet_set, groupStart,
                   sched_data, ordered, print_mgr>>

\* line 551: print_mgr.SubmitPrint() raises and the transaction group rolls back
SubmitPrintCombinedRaises ==
    /\ pc = "submit"
    /\ RolledBack(groupStart)
    /\ pc' = "raised"
    /\ UNCHANGED <<sheetName, canBePrinted, schedFile, printJobs>>
    /\ UNCHANGED <<dlgVars, sessVars, histVars>>
    /\ UNCHANGED <<target_sheets, idx, original_sheetnums, sheet_set, groupStart,
                   sched_data, ordered, print_mgr>>

\* lines 556-559: one turn of the loop of transaction 'Restore Sheet Numbers'
RestoreSheetNumber ==
    /\ pc = "restore"
    /\ idx < Len(target_sheets)
    /\ LET rvtsheet == target_sheets[idx + 1].sheet
           sheetnum == RestoredNumber(sheetNumber[rvtsheet], original_sheetnums, idx + 1)
       IN /\ ~NumberInUse(sheetNumber, rvtsheet, sheetnum)
          /\ sheetNumber' = [sheetNumber EXCEPT ![rvtsheet] = sheetnum]
          /\ events' = Append(events, Step("restore", rvtsheet))
    /\ idx' = idx + 1
    /\ UNCHANGED <<sheetName, canBePrinted, schedFile, viewSheetSets, printJobs>>
    /\ UNCHANGED <<dlgVars, sessVars, currentPrintSetting, startNumber>>
    /\ UNCHANGED <<pc, target_sheets, original_sheetnums, sheet_set, groupStart,
                   sched_data, ordered, print_mgr>>

\* the loop is over: the transaction commits, the group is assimilated and
\* the routine returns
CombinedReturns ==
    /\ pc = "restore"
    /\ idx = Len(target_sheets)
    /\ pc' = StepAfter(pc)
    /\ UNCHANGED <<docVars, dlgVars, sessVars, currentPrintSetting, histVars>>
    /\ UNCHANGED <<target_sheets, idx, original_sheetnums, sheet_set, groupStart,
                   sched_data, ordered, print_mgr>>

Next ==
    \/ CombinedGetPrintManager
    \/ SetPrinterSettings
    \/ FixSheetNumber
    \/ FixSheetNumberRaises
    \/ FixSheetNumbersCommit
    \/ RemovePreviousPrintSet
    \/ UpdateOrderedPrintSet
    \/ UpdateOrderedPrintSetRaises
    \/ SetJobConfiguration
    \/ SetJobConfigurationExits
    \/ SubmitPrintCombined
    \/ SubmitPrintCombinedRaises
    \/ RestoreSheetNumber
    \/ CombinedReturns

Spec == Init /\ [][Next]_vars

---------------------------------------------------------------------------
(* Print indices: options_changed                                          *)

\* str(n) for n >= 0
RECURSIVE Digits(_)
Digits(n) == IF n < 10 THEN <<ZERO + n>> ELSE Digits(n \div 10) \o <<ZERO + (n % 10)>>

\* int(text) for a string of digits
RECURSIVE ParseInt(_)
ParseInt(text) ==
    IF text = <<>> THEN 0
    ELSE 10 * ParseInt(SubSeq(text, 1, Len(text) - 1)) + (text[Len(text)] - ZERO)

\* INDEX_FORMAT.format(digits=digits).format(n): '{:0<digits>}', n padded with
\* zeros on the left to at least <digits> characters
IndexFormat(digits, n) == Repeat(ZERO, digits - Len(Digits(n))) \o Digits(n)

\* _update_print_indices with the enumeration started at 1
UpdatePrintIndicesFromOne(list, start_idx, digits) ==
    [k \in 1..Len(list) |->
        [list[k] EXCEPT !.print_index = IndexFormat(digits, k + start_idx)]]

\* _update_print_indices(sheet_list): idx is the 0-based position
UpdatePrintIndices(list, start_idx, digits) ==
    [k \in 1..Len(list) |->
        [list[k] EXCEPT !.print_index = IndexFormat(digits, (k - 1) + start_idx)]]

\* Maximum - Minimum of the index slider
SliderSpan == 3

\* _update_index_slider: Minimum of the slider
SliderMinimum(scheduled, start) == Max(Len(Digits(Len(scheduled) + start)), 2)

\* the slider keeps its value inside [Minimum, Maximum]
SliderValue(value, scheduled, start) ==
    Max(SliderMinimum(scheduled, start),
        Min(value, SliderMinimum(scheduled, start) + SliderSpan))

IsPrintable(item) == item.printable

\* the item of a list for a sheet
ItemOf(list, s) == list[CHOOSE k \in 1..Len(list) : list[k].sheet = s]

\* options_changed: what it leaves in the dialog.  The list items are shared
\* between _scheduled_sheets and the displayed list, so an index written
\* through one list shows in the other.
OptionsChanged(scheduled, reversed, show, include, start, slider) ==
    LET digits == SliderValue(slider, scheduled, start)
        all == UpdatePrintIndices(IF reversed THEN Reverse(scheduled) ELSE scheduled,
                                  start, digits)
        printable_sheets == SelectSeq(all, IsPrintable)
        shown == IF show THEN all
                 ELSE IF include THEN printable_sheets
                 ELSE UpdatePrintIndices(printable_sheets, start, digits)
        Current(item) == IF \E k \in 1..Len(shown) : shown[k].sheet = item.sheet
                         THEN ItemOf(shown, item.sheet) ELSE ItemOf(all, item.sheet)
    IN [sheet_list |-> shown,
        scheduled_sheets |-> [k \in 1..Len(scheduled) |-> Current(scheduled[k])],
        include_placeholders |-> IF show THEN TRUE ELSE include,
        index_digits |-> digits]

\* the values typed into indexstart_tb in the runs
IndexStarts == {0, 1, 98}

\* the state options_changed leaves, written into the dialog's variables
DialogAfterOptionsChanged(scheduled, reversed, show, include, start, slider) ==
    LET after == OptionsChanged(scheduled, reversed, show, include, start, slider)
    IN /\ sheet_list' = after.sheet_list
       /\ scheduled_sheets' = after.scheduled_sheets
       /\ include_placeholders' = after.include_placeholders
       /\ index_digits' = after.index_digits
       /\ reverse_print' = reversed
       /\ show_placeholders' = show
       /\ index_start' = start

\* the sheet numbers of the documents of the dialog runs: A1, A2, ...
DialogSheetNumber(s) == <<65, ZERO + s>>

\* the sheet names of the documents of the dialog runs
DialogSheetName(s) ==
    IF s <= 2 THEN <<49, 47, 56, SPACE, 65>>
    ELSE IF s = 3 THEN <<80>>
    ELSE <<80, SPACE, 81>>

\* a document with n sheets, its schedule loaded by sheetlist_changed
DialogDocument(n) ==
    /\ sheetNumber = [s \in 1..n |-> DialogSheetNumber(s)]
    /\ sheetName = [s \in 1..n |-> DialogSheetName(s)]
    /\ canBePrinted \in [1..n -> BOOLEAN]
    /\ schedFile = [readable |-> FALSE, lines |-> <<>>]
    /\ viewSheetSets = EmptyFun
    /\ printJobs = <<>>
    /\ startNumber = sheetNumber

InitOptions ==
    /\ \E n \in 1..MaxSheets : DialogDocument(n)
    /\ \E reversed, show, include \in BOOLEAN, start \in IndexStarts :
          LET after == OptionsChanged(TargetItems(Len(sheetNumber)), reversed, show,
                                      include, start, 2)
          IN /\ sheet_list = after.sheet_list
             /\ scheduled_sheets = after.scheduled_sheets
             /\ include_placeholders = after.include_placeholders
             /\ index_digits = after.index_digits
             /\ reverse_print = reversed
             /\ show_placeholders = show
             /\ index_start = start
    /\ naming_format = 0
    /\ is_linked = FALSE
    /\ IdleRun
    /\ IdleSession
    /\ pc = "dialog"

OptionsFrame ==
    /\ UNCHANGED <<docVars, runVars, histVars>>
    /\ UNCHANGED <<naming_format, is_linked>>
    /\ UNCHANGED <<sessKept, currentPrintSetting>>
    /\ selected_sheets' = <<>>

\* reverse_cb is clicked: options_changed
ReverseClicked ==
    /\ pc = "dialog"
    /\ DialogAfterOptionsChanged(scheduled_sheets, ~reverse_print, show_placeholders,
                                 include_placeholders, index_start, index_digits)
    /\ OptionsFrame

\* placeholder_cb is clicked: options_changed
PlaceholderClicked ==
    /\ pc = "dialog"
    /\ DialogAfterOptionsChanged(scheduled_sheets, reverse_print, ~show_placeholders,
                                 include_placeholders, index_start, index_digits)
    /\ OptionsFrame

\* indexspace_cb is clicked, which it can be while it is enabled: options_changed
IndexSpaceClicked ==
    /\ pc = "dialog"
    /\ ~show_placeholders
    /\ DialogAfterOptionsChanged(scheduled_sheets, reverse_print, show_placeholders,
                                 ~include_placeholders, index_start, index_digits)
    /\ OptionsFrame

\* indexstart_tb is edited: options_changed
IndexStartChanged ==
    /\ pc = "dialog"
    /\ \E start \in IndexStarts \ {index_start} :
          DialogAfterOptionsChanged(scheduled_sheets, reverse_print, show_placeholders,
                                    include_placeholders, start, index_digits)
    /\ OptionsFrame

\* index_slider is moved: options_changed
IndexSliderMoved ==
    /\ pc = "dialog"
    /\ \E value \in SliderMinimum(scheduled_sheets, index_start)
                     ..(SliderMinimum(scheduled_sheets, index_start) + SliderSpan) :
          /\ value # index_digits
          /\ DialogAfterOptionsChanged(scheduled_sheets, reverse_print, show_placeholders,
                                       include_placeholders, index_start, value)
    /\ OptionsFrame

NextOptions ==
    \/ ReverseClicked
    \/ PlaceholderClicked
    \/ IndexSpaceClicked
    \/ IndexStartChanged
    \/ IndexSliderMoved

SpecOptions == InitOptions /\ [][NextOptions]_vars

\* the scheduled sheets in schedule order, reversed when reverse is checked
FullList == IF reverse_print THEN Reverse(scheduled_sheets) ELSE scheduled_sheets

\* the 0-based position of a sheet in the full list
PositionInFullList(s) == (CHOOSE k \in 1..Len(FullList) : FullList[k].sheet = s) - 1

SheetsOf(list) == [k \in 1..Len(list) |-> list[k].sheet]

\* C10: after options_changed, with show_placeholders unchecked the displayed
\* list holds the printable scheduled sheets in (possibly reversed) schedule
\* order, the i-th of them with index index_start + i when include_placeholders
\* is unchecked and with index_start + its position in the full list when it is
\* checked; with show_placeholders checked the full list is displayed, the i-th
\* sheet with index index_start + i.  The indices strictly increase along the
\* displayed list.
C10_PrintIndices ==
    (pc = "dialog") =>
        /\ ~show_placeholders =>
              /\ SheetsOf(sheet_list) = SheetsOf(SelectSeq(FullList, IsPrintable))
              /\ \A k \in 1..Len(sheet_list) :
                    ParseInt(sheet_list[k].print_index) =
                        IF include_placeholders
                        THEN index_start + PositionInFullList(sheet_list[k].sheet)
                        ELSE index_start + (k - 1)
        /\ show_placeholders =>
              /\ SheetsOf(sheet_list) = SheetsOf(FullList)
              /\ \A k \in 1..Len(sheet_list) :
                    ParseInt(sheet_list[k].print_index) = index_start + (k - 1)
        /\ \A k \in 1..Len(sheet_list) :
              /\ Len(sheet_list[k].print_index) = index_digits
              /\ sheet_list[k].printable = canBePrinted[sheet_list[k].sheet]
        /\ \A i, j \in 1..Len(sheet_list) :
              i < j => /\ ParseInt(sheet_list[i].print_index)
                            < ParseInt(sheet_list[j].print_index)
                       /\ StrLess(sheet_list[i].print_index, sheet_list[j].print_index)

\* reversed, placeholders hidden but counted: the second displayed sheet is two
\* indices after the first, and the indices have three digits
C10_Witness ==
    /\ pc = "dialog"
    /\ reverse_print /\ ~show_placeholders /\ include_placeholders
    /\ index_start = 98
    /\ Len(sheet_list) = 2
    /\ sheet_list[1].print_index = <<48, 57, 56>>
    /\ sheet_list[2].print_index = <<49, 48, 48>>

---------------------------------------------------------------------------
(* Individual printing: _print_sheets_in_order, _print_linked_sheets_in_order *)

\* '.pdf'
PdfExt == <<46, 112, 100, 102>>

\* a replacement field and a literal of a template
Field(name) == [field |-> name, text |-> <<>>]
Literal(text) == [field |-> "", text |-> text]

\* _setup_naming_formats with the sixth format carrying the name as well
NamingFormatsNameInSixth ==
    <<[template |-> <<Field("index"), Literal(<<SPACE>>), Field("number"),
                      Literal(<<SPACE>>), Field("name"), Literal(PdfExt)>>,
       space |-> SPACE],
      [template |-> <<Field("index"), Literal(<<UNDERSCORE>>), Field("number"),
                      Literal(<<SPACE>>), Field("name"), Literal(PdfExt)>>,
       space |-> SPACE],
      [template |-> <<Field("index"), Literal(<<SPACE>>), Field("number"),
                      Literal(<<UNDERSCORE>>), Field("name"), Literal(PdfExt)>>,
       space |-> SPACE],
      [template |-> <<Field("index"), Literal(<<UNDERSCORE>>), Field("number"),
                      Literal(<<UNDERSCORE>>), Field("name"), Literal(PdfExt)>>,
       space |-> SPACE],
      [template |-> <<Field("index"), Literal(<<UNDERSCORE>>), Field("number"),
                      Literal(<<UNDERSCORE>>), Field("name"), Literal(PdfExt)>>,
       space |-> UNDERSCORE],
      [template |-> <<Field("index"), Literal(<<SPACE>>), Field("number"),
                      Literal(<<SPACE>>), Field("name"), Literal(PdfExt)>>,
       space |-> SPACE],
      [template |-> <<Field("index"), Literal(<<UNDERSCORE>>), Field("number"),
                      Literal(PdfExt)>>,
       space |-> SPACE],
      [template |-> <<Field("index"), Literal(<<SPACE>>), Field("name"),
                      Literal(PdfExt)>>,
       space |-> SPACE],
      [template |-> <<Field("index"), Literal(<<UNDERSCORE>>), Field("name"),
                      Literal(PdfExt)>>,
       space |-> SPACE],
      [template |-> <<Field("index"), Literal(<<UNDERSCORE>>), Field("name"),
                      Literal(PdfExt)>>,
       space |-> UNDERSCORE]>>

\* _setup_naming_formats: the ten NamingFormat(template, space) of the dialog
NamingFormats ==
    <<[template |-> <<Field("index"), Literal(<<SPACE>>), Field("number"),
                      Literal(<<SPACE>>), Field("name"), Literal(PdfExt)>>,
       space |-> SPACE],
      [template |-> <<Field("index"), Literal(<<UNDERSCORE>>), Field("number"),
                      Literal(<<SPACE>>), Field("name"), Literal(PdfExt)>>,
       space |-> SPACE],
      [template |-> <<Field("index"), Literal(<<SPACE>>), Field("number"),
                      Literal(<<UNDERSCORE>>), Field("name"), Literal(PdfExt)>>,
       space |-> SPACE],
      [template |-> <<Field("index"), Literal(<<UNDERSCORE>>), Field("number"),
                      Literal(<<UNDERSCORE>>), Field("name"), Literal(PdfExt)>>,
       space |-> SPACE],
      [template |-> <<Field("index"), Literal(<<UNDERSCORE>>), Field("number"),
                      Literal(<<UNDERSCORE>>), Field("name"), Literal(PdfExt)>>,
       space |-> UNDERSCORE],
      [template |-> <<Field("index"), Literal(<<SPACE>>), Field("number"),
                      Literal(PdfExt)>>,
       space |-> SPACE],
      [template |-> <<Field("index"), Literal(<<UNDERSCORE>>), Field("number"),
                      Literal(PdfExt)>>,
       space |-> SPACE],
      [template |-> <<Field("index"), Literal(<<SPACE>>), Field("name"),
                      Literal(PdfExt)>>,
       space |-> SPACE],
      [template |-> <<Field("index"), Literal(<<UNDERSCORE>>), Field("name"),
                      Literal(PdfExt)>>,
       space |-> SPACE],
      [template |-> <<Field("index"), Literal(<<UNDERSCORE>>), Field("name"),
                      Literal(PdfExt)>>,
       space |-> UNDERSCORE]>>

\* namingformat_cb.SelectedItem
SelectedNamingFormat == NamingFormats[naming_format + 1]

\* template.format(index=..., number=..., name=...)
RECURSIVE TemplateFormat(_, _)
TemplateFormat(template, values) ==
    IF template = <<>> THEN <<>>
    ELSE (IF Head(template).field = "" THEN Head(template).text
          ELSE values[Head(template).field])
         \o TemplateFormat(Tail(template), values)

\* the characters re.sub(r'[\/:*?"<>|]', '', file_name) removes
WindowsUnsafe == {92, 47, 58, 42, 63, 34, 60, 62, 124}

\* coreutils.cleanup_filename(file_name, windows_safe=True)
RECURSIVE CleanupFilename(_)
CleanupFilename(file_name) ==
    IF file_name = <<>> THEN <<>>
    ELSE IF Head(file_name) \in WindowsUnsafe THEN CleanupFilename(Tail(file_name))
    ELSE <<Head(file_name)>> \o CleanupFilename(Tail(file_name))

\* output_fname of one target sheet
OutputFname(naming_fmt, sheet) ==
    CleanupFilename(
        TemplateFormat(naming_fmt.template,
                       [index |-> sheet.print_index,
                        number |-> sheet.number,
                        name |-> StrReplaceChar(sheet.name, SPACE, naming_fmt.space)]))

\* USER_DESKTOP, here C:\D
UserDesktop == <<67, 58, BACKSLASH, 68>>

\* op.join(USER_DESKTOP, output_fname): a second part that starts with a
\* separator or holds a drive replaces the first
OpJoin(a, b) ==
    IF b # <<>> /\ Head(b) \in {BACKSLASH, 47} THEN SubSeq(a, 1, 2) \o b
    ELSE IF Len(b) >= 2 /\ b[2] = 58 THEN b
    ELSE a \o <<BACKSLASH>> \o b

\* the selections the user can make in the displayed list: the sheets of a
\* set of its rows, in any order
Selections(list) ==
    UNION {Injections(Range(list), m) : m \in 1..Len(list)}

InitIndividual ==
    /\ \E n \in 1..MaxPrintSheets : DialogDocument(n)
    /\ \E show, include \in BOOLEAN :
          LET after == OptionsChanged(TargetItems(Len(sheetNumber)), FALSE, show,
                                      include, 0, 2)
          IN /\ sheet_list = after.sheet_list
             /\ scheduled_sheets = after.scheduled_sheets
             /\ include_placeholders = after.include_placeholders
             /\ index_digits = after.index_digits
             /\ reverse_print = FALSE
             /\ show_placeholders = show
             /\ index_start = 0
    /\ sheet_list # <<>>
    /\ target_sheets \in {sheet_list} \cup Selections(sheet_list)
    /\ naming_format \in 0..(Len(NamingFormats) - 1)
    /\ is_linked \in BOOLEAN
    /\ idx = 0
    /\ original_sheetnums = <<>>
    /\ sheet_set = {}
    /\ groupStart = <<>>
    /\ sched_data = <<>>
    /\ ordered = <<>>
    /\ print_mgr = "unset"
    /\ events = <<>>
    /\ IdleSession
    /\ pc = "individual"

IndividualFrame ==
    /\ UNCHANGED <<sheetNumber, sheetName, canBePrinted, schedFile, viewSheetSets>>
    /\ UNCHANGED <<dlgVars, sessVars, startNumber>>
    /\ UNCHANGED <<target_sheets, original_sheetnums, sheet_set, sched_data, ordered>>

\* the print setting a turn of the loop leaves current: in the local routine
\* with the variable-paper item selected, sheet.print_settings, which is the
\* setting found for the sheet's title block or the one chosen for the sheet
\* in set_sheet_printsettings: a print setting of the document
PerSheetPrintSetting(linked, sheet) ==
    IF ~linked /\ sheet.printable /\ selected_print_setting.allows_variable_paper
    THEN \E setting \in NamedSettings(SelectedDoc) :
            currentPrintSetting' = [currentPrintSetting EXCEPT ![SelectedDoc] = setting]
    ELSE UNCHANGED currentPrintSetting

\* the DryTransaction of the local routine rolls back when it is left; the
\* linked routine has no transaction
DryTransactionLeft(linked) ==
    IF linked THEN UNCHANGED currentPrintSetting
    ELSE currentPrintSetting' = groupStart.setting

\* the print manager is obtained; without one the routine returns.  In the
\* local routine the DryTransaction starts and, unless the print settings go
\* by sheet, the selected print setting is made the current one.
GetPrintManager(linked) ==
    /\ pc = "individual"
    /\ is_linked = linked
    /\ \E available \in BOOLEAN :
          /\ print_mgr' = GetPrintManagerResult(available)
          /\ pc' = AfterGetPrintManager(print_mgr', "print_loop")
    /\ IF ~linked /\ pc' = "print_loop"
       THEN /\ groupStart' = DocumentSnapshot
            /\ currentPrintSetting' =
                  IF selected_print_setting.allows_variable_paper
                  THEN currentPrintSetting
                  ELSE [currentPrintSetting EXCEPT
                           ![SelectedDoc] = selected_print_setting.print_settings]
       ELSE UNCHANGED <<groupStart, currentPrintSetting>>
    /\ idx' = 0
    /\ UNCHANGED <<printJobs, events>>
    /\ IndividualFrame

\* one turn of the loop over target_sheets without the test of sheet.printable
PrintSheetUnchecked(linked) ==
    /\ pc = "print_loop"
    /\ is_linked = linked
    /\ idx < Len(target_sheets)
    /\ LET sheet == target_sheets[idx + 1]
       IN /\ printJobs' = Append(printJobs,
                [kind |-> "single",
                 sheets |-> <<sheet.sheet>>,
                 file |-> OpJoin(UserDesktop, OutputFname(SelectedNamingFormat, sheet))])
          /\ events' = Append(events, Step("submit_print", sheet.sheet))
          /\ PerSheetPrintSetting(linked, sheet)
    /\ idx' = idx + 1
    /\ UNCHANGED <<pc, groupStart, print_mgr>>
    /\ IndividualFrame

\* one turn of the loop over target_sheets: a printable sheet gets its file
\* name and is submitted, another sheet is skipped
PrintSheet(linked) ==
    /\ pc = "print_loop"
    /\ is_linked = linked
    /\ idx < Len(target_sheets)
    /\ LET sheet == target_sheets[idx + 1]
       IN IF sheet.printable
          THEN /\ printJobs' = Append(printJobs,
                    [kind |-> "single",
                     sheets |-> <<sheet.sheet>>,
                     file |-> OpJoin(UserDesktop,
                                     OutputFname(SelectedNamingFormat, sheet))])
               /\ events' = Append(events, Step("submit_print", sheet.sheet))
          ELSE /\ events' = Append(events, Step("skip", sheet.sheet))
               /\ UNCHANGED printJobs
    /\ PerSheetPrintSetting(linked, target_sheets[idx + 1])
    /\ idx' = idx + 1
    /\ UNCHANGED <<pc, groupStart, print_mgr>>
    /\ IndividualFrame

\* print_mgr.SubmitPrint(sheet.revit_sheet) raises
PrintSheetRaises(linked) ==
    /\ pc = "print_loop"
    /\ is_linked = linked
    /\ idx < Len(target_sheets)
    /\ target_sheets[idx + 1].printable
    /\ pc' = "raised"
    /\ DryTransactionLeft(linked)
    /\ UNCHANGED <<printJobs, events, idx, groupStart, print_mgr>>
    /\ IndividualFrame

\* the loop is over and the routine returns
PrintReturns(linked) ==
    /\ pc = "print_loop"
    /\ is_linked = linked
    /\ idx = Len(target_sheets)
    /\ pc' = "returned"
    /\ DryTransactionLeft(linked)
    /\ UNCHANGED <<printJobs, events, idx, groupStart, print_mgr>>
    /\ IndividualFrame

\* _print_sheets_in_order, lines 563-565
LocalGetPrintManager == GetPrintManager(FALSE)
\* _print_sheets_in_order, lines 576-597
LocalPrintSheet == PrintSheet(FALSE)
\* _print_sheets_in_order, line 594
LocalPrintSheetRaises == PrintSheetRaises(FALSE)
\* _print_sheets_in_order, the end of the loop
LocalPrintReturns == PrintReturns(FALSE)
\* _print_linked_sheets_in_order, lines 601-603
LinkedGetPrintManager == GetPrintManager(TRUE)
\* _print_linked_sheets_in_order, lines 611-628
LinkedPrintSheet == PrintSheet(TRUE)
\* _print_linked_sheets_in_order, line 623
LinkedPrintSheetRaises == PrintSheetRaises(TRUE)
\* _print_linked_sheets_in_order, the end of the loop
LinkedPrintReturns == PrintReturns(TRUE)

NextIndividual ==
    \/ LocalGetPrintManager
    \/ LocalPrintSheet
    \/ LocalPrintSheetRaises
    \/ LocalPrintReturns
    \/ LinkedGetPrintManager
    \/ LinkedPrintSheet
    \/ LinkedPrintSheetRaises
    \/ LinkedPrintReturns

SpecIndividual == InitIndividual /\ [][NextIndividual]_vars

---------------------------------------------------------------------------
(* Claims about the individual print                                       *)

\* the sheets of the submitted jobs, in order
PrintedSheets == [k \in 1..Len(printJobs) |-> printJobs[k].sheets[1]]

\* the printable sheets of target_sheets, in order
PrintableTargets == SheetsOf(SelectSeq(target_sheets, IsPrintable))

IndividualEnded == pc \in {"returned", "no_print_manager", "raised"}

NotWindowsUnsafe(c) == c \notin {92, 47, 58, 42, 63, 34, 60, 62, 124}

\* the name of a sheet with every space replaced
SpacesReplaced(name, space) == [k \in 1..Len(name) |-> IF name[k] = SPACE THEN space ELSE name[k]]

\* the ten templates, filled in for a list item
FilledTemplate(format, item) ==
    LET i == item.print_index
        n == item.number
        plain == SpacesReplaced(item.name, SPACE)
        under == SpacesReplaced(item.name, UNDERSCORE)
        sp == <<SPACE>>
        us == <<UNDERSCORE>>
    IN CASE format = 0 -> i \o sp \o n \o sp \o plain \o PdfExt
         [] format = 1 -> i \o us \o n \o sp \o plain \o PdfExt
         [] format = 2 -> i \o sp \o n \o us \o plain \o PdfExt
         [] format = 3 -> i \o us \o n \o us \o plain \o PdfExt
         [] format = 4 -> i \o us \o n \o us \o under \o PdfExt
         [] format = 5 -> i \o sp \o n \o PdfExt
         [] format = 6 -> i \o us \o n \o PdfExt
         [] format = 7 -> i \o sp \o plain \o PdfExt
         [] format = 8 -> i \o us \o plain \o PdfExt
         [] format = 9 -> i \o us \o under \o PdfExt

DesktopFolder == UserDesktop \o <<BACKSLASH>>

---------------------------------------------------------------------------
(* Claims about the combined print                                         *)

\* the sheets of target_sheets, in order
TargetSheets == [k \in 1..Len(target_sheets) |-> target_sheets[k].sheet]

\* C1: when the routine has run to its end (print manager available, nothing
\* raised, SubmitPrint returned), every target sheet has the sheet number it
\* had when the routine started.
C1_NumbersRestored ==
    (pc = "returned") =>
        \A k \in 1..Len(target_sheets) :
            sheetNumber[TargetSheets[k]] = startNumber[TargetSheets[k]]

\* a run to the end over printable and non-printable targets, one of which
\* had a marker in its number to begin with
C1_Witness ==
    /\ pc = "returned"
    /\ Len(printJobs) = 1
    /\ \E i, j \in 1..Len(target_sheets) :
          /\ target_sheets[i].printable /\ ~target_sheets[j].printable
          /\ NPC \in Range(startNumber[TargetSheets[i]])

\* C2: once every target sheet is renamed, the sheet at 0-based position idx
\* has (idx+1) markers followed by its original number, and the renamed
\* numbers in ascending character order give the sheets in the order of
\* target_sheets.
C2_RenamedNumbersSortAsTargets ==
    (pc = "remove_set") =>
        /\ \A k \in 1..Len(target_sheets) :
              sheetNumber[TargetSheets[k]] = Repeat(NPC, k) \o startNumber[TargetSheets[k]]
        /\ SortByNumber(Range(TargetSheets), sheetNumber) = TargetSheets

\* the steps of a run to the end, in the order the claim gives them
ExpectedEvents ==
    <<Step("set_print_settings", 0)>>
    \o [k \in 1..Len(target_sheets) |-> Step("rename", TargetSheets[k])]
    \o <<Step("save_sheet_set", 0), Step("submit_print", 0)>>
    \o [k \in 1..Len(target_sheets) |-> Step("restore", TargetSheets[k])]

HasMarkerPrefix(s) == sheetNumber[s] # <<>> /\ Head(sheetNumber[s]) = NPC

\* C8: the steps of a combined print occur in the order set print settings,
\* rename every target, save the sheet set, submit the print, restore every
\* target: the print is submitted with every target renamed and the set
\* 'OrderedPrintSet' saved, and no number is restored before the submission.
C8_StepOrder ==
    /\ IsPrefix(events, ExpectedEvents)
    /\ (pc = "returned") => events = ExpectedEvents
    /\ (Step("submit_print", 0) \in Range(events)) =>
          \E k \in 1..Len(events) :
              /\ events[k] = Step("submit_print", 0)
              /\ \A s \in Range(TargetSheets) :
                    \E j \in 1..(k - 1) : events[j] = Step("rename", s)
              /\ \E j \in 1..(k - 1) : events[j] = Step("save_sheet_set", 0)
              /\ \A j \in 1..(k - 1) : events[j].step # "restore"
    /\ (printJobs # <<>> /\ pc = "restore" /\ idx = 0) =>
          /\ \A s \in Range(TargetSheets) : HasMarkerPrefix(s)
          /\ OrderedPrintSet \in DOMAIN viewSheetSets

\* a run to the end over three target sheets
C8_Witness ==
    /\ pc = "returned"
    /\ Len(target_sheets) = 3
    /\ Len(events) = 9

\* the host never holds two sheets of one number
UniqueSheetNumbers ==
    \A s, t \in DOMAIN sheetNumber : s # t => sheetNumber[s] # sheetNumber[t]

\* the restore loop never meets a number in use
RestoreNeverRefused ==
    (pc = "restore" /\ idx < Len(target_sheets)) =>
        ~NumberInUse(sheetNumber, TargetSheets[idx + 1], original_sheetnums[idx + 1])

---------------------------------------------------------------------------
(* Claims about the sheet ordering                                         *)

\* the sheets handed to the ordering whose number matches some line
Matching == {s \in Range(ScheduleSheets) : FirstMatch(sheetNumber[s], sched_data) >= 0}

\* C4: with non-empty schedule data, the returned sheets are ordered by the
\* first line each one's number matches: of two returned sheets, the earlier
\* one's first matching line comes strictly before the later one's.
C4_OrderedByFirstMatch ==
    (pc = "ordered" /\ sched_data # <<>>) =>
        \A i, j \in 1..Len(ordered) :
            i < j => /\ FirstMatch(sheetNumber[ordered[i]], sched_data) >= 0
                     /\ FirstMatch(sheetNumber[ordered[i]], sched_data)
                          < FirstMatch(sheetNumber[ordered[j]], sched_data)

\* two sheets returned in the reverse of their element order
C4_Witness ==
    /\ pc = "ordered" /\ sched_data # <<>>
    /\ Len(ordered) = 2
    /\ ordered[1] > ordered[2]

\* C5: with non-empty schedule data, every sheet whose number matches a line
\* is returned exactly once and no other sheet is returned.
C5_PermutationOfMatching ==
    (pc = "ordered" /\ sched_data # <<>>) =>
        /\ \A s \in Matching : Cardinality({k \in 1..Len(ordered) : ordered[k] = s}) = 1
        /\ Range(ordered) \subseteq Matching

\* C7: when the schedule file cannot be read or holds no line, the schedule
\* data is the empty list and the ordering returns its input list unchanged.
C7_EmptyDataKeepsList ==
    (pc = "ordered" /\ (~schedFile.readable \/ schedFile.lines = <<>>)) =>
        /\ sched_data = <<>>
        /\ ordered = ScheduleSheets

\* an unreadable file with two sheets to order
C7_Witness ==
    /\ pc = "ordered" /\ ~schedFile.readable
    /\ Len(ordered) = 2

---------------------------------------------------------------------------
(* Claims about the ways the combined print ends                           *)

\* how often the marker occurs in a sheet number
MarkerCount(number) == Cardinality({k \in 1..Len(number) : number[k] = NPC})

\* _print_combined_sheets_in_order has ended: it returned, with or without a
\* print manager, it raised, or it exited the script
CombinedEnded == pc \in {"returned", "no_print_manager", "raised", "exited"}

---------------------------------------------------------------------------
(* The dialog: doclist_changed, sheetlist_changed, print_sheets            *)

\* the number of sheets of the host document in the dialog runs
MaxDialogSheets == 6

\* sheet_count > 5 asks for a confirmation
ConfirmAbove == 5

\* the sheets of the linked document in the dialog runs
LinkedSheets == <<MaxDialogSheets + 1, MaxDialogSheets + 2>>

\* _get_sheet_index_list for the host document: none, one or two schedules
HostScheduleLists ==
    {<<>>,
     <<[doc |-> Host, k |-> 1]>>,
     <<[doc |-> Host, k |-> 1], [doc |-> Host, k |-> 2]>>}

\* _get_sheet_index_list for the linked document: none or one schedule
LinkedScheduleLists == {<<>>, <<[doc |-> Linked, k |-> 1]>>}

\* the sheets of a schedule as _order_sheets_by_schedule_data returns them:
\* the first schedule of the host lists all its sheets, the second the first
\* two in the other order, the schedule of the linked document its two sheets
ScheduleOrder(schedule) ==
    IF schedule.doc = Linked THEN LinkedSheets
    ELSE IF schedule.k = 1 THEN [s \in 1..MaxDialogSheets |-> s]
    ELSE <<2, 1>>

\* _get_ordered_schedule_sheets: nothing for a schedule of another document
GetOrderedScheduleSheets(doc, schedule) ==
    IF doc = schedule.doc THEN ScheduleOrder(schedule) ELSE <<>>

\* the part of the dialog that doclist_changed and sheetlist_changed work on
Dialog ==
    [is_linked |-> is_linked,
     schedule |-> selected_schedule,
     psetting |-> selected_print_setting,
     init |-> init_psettings,
     combine |-> combine_print,
     enabled |-> combine_enabled,
     scheduled |-> scheduled_sheets,
     sheet_list |-> sheet_list,
     include |-> include_placeholders,
     digits |-> index_digits,
     at_selection |-> settingAtSelection]

\* the dialog when the window is constructed, before documents_cb gets its
\* selection
BlankDialog(combine) ==
    [is_linked |-> FALSE,
     schedule |-> NoSchedule,
     psetting |-> NoItem,
     init |-> NoSetting,
     combine |-> combine,
     enabled |-> TRUE,
     scheduled |-> <<>>,
     sheet_list |-> <<>>,
     include |-> FALSE,
     digits |-> 2,
     at_selection |-> NoSetting]

DocOf(d) == IF d.is_linked THEN Linked ELSE Host

\* F(x) with x evaluated first: one statement after the other
Then(x, F(_)) == CHOOSE r \in {F(v) : v \in {x}} : TRUE

\* _update_combine_option without the test of selected_doc.IsLinked
UpdateCombineOptionLocalOnly(d) ==
    IF (d.schedule # NoSchedule /\ d.psetting # NoItem)
       /\ d.psetting.allows_variable_paper
    THEN [d EXCEPT !.enabled = FALSE, !.combine = FALSE]
    ELSE [d EXCEPT !.enabled = TRUE]

\* _update_combine_option
UpdateCombineOption(d) ==
    IF d.is_linked
       \/ ((d.schedule # NoSchedule /\ d.psetting # NoItem)
           /\ d.psetting.allows_variable_paper)
    THEN [d EXCEPT !.enabled = FALSE, !.combine = FALSE]
    ELSE [d EXCEPT !.enabled = TRUE]

\* options_changed, on the part of the dialog
WithOptionsChanged(d) ==
    LET after == OptionsChanged(d.scheduled, reverse_print, show_placeholders,
                                d.include, index_start, d.digits)
    IN [d EXCEPT !.sheet_list = after.sheet_list,
                 !.scheduled = after.scheduled_sheets,
                 !.include = after.include_placeholders,
                 !.digits = after.index_digits]

\* the list items of a sequence of sheets
ItemsOf(sheets) == [k \in 1..Len(sheets) |-> ViewSheetListItem(sheets[k])]

\* sheetlist_changed, lines 683-705: _scheduled_sheets is built anew when a
\* schedule and a print setting are selected
ScheduledSheetsListed(d) ==
    IF d.schedule # NoSchedule /\ d.psetting # NoItem
    THEN [d EXCEPT !.scheduled =
              ItemsOf(GetOrderedScheduleSheets(DocOf(d), d.schedule))]
    ELSE d

\* sheetlist_changed
SheetlistChanged(d) ==
    Then(Then(Then(d, ScheduledSheetsListed), UpdateCombineOption), WithOptionsChanged)

\* a selection of printsettings_cb or schedules_cb is taken away or made,
\* which calls sheetlist_changed when the selection changes
PrintSettingBecomes(d, item) ==
    IF d.psetting = item THEN d ELSE SheetlistChanged([d EXCEPT !.psetting = item])
ScheduleBecomes(d, schedule) ==
    IF d.schedule = schedule THEN d ELSE SheetlistChanged([d EXCEPT !.schedule = schedule])

\* _setup_print_settings, lines 424-447: the new ItemsSource clears the
\* selection of printsettings_cb; _init_psettings is kept for a named current
\* print setting; the item of the current print setting is selected
PrintSettingCleared(d) == PrintSettingBecomes(d, NoItem)
CurrentPrintSettingSelected(d) ==
    LET current == currentPrintSetting[DocOf(d)]
    IN PrintSettingBecomes(
          [d EXCEPT !.init = IF IsInSession(current) THEN d.init ELSE current,
                    !.at_selection = current],
          PrintSettingListItem(current))

\* _setup_print_settings
SetupPrintSettings(d) ==
    Then(Then(Then(d, PrintSettingCleared), CurrentPrintSettingSelected),
         UpdateCombineOption)

\* _setup_sheet_list: the new ItemsSource clears the selection of
\* schedules_cb, then the first schedule, if there is one, is selected
ScheduleCleared(d) == ScheduleBecomes(d, NoSchedule)
FirstScheduleSelected(d) ==
    IF doc_schedules[DocOf(d)] # <<>>
    THEN ScheduleBecomes(d, doc_schedules[DocOf(d)][1])
    ELSE d

\* _setup_sheet_list
SetupSheetList(d) == Then(Then(d, ScheduleCleared), FirstScheduleSelected)

\* documents_cb has got another document
DocumentBecomes(d, linked) == [d EXCEPT !.is_linked = linked]

\* doclist_changed, after documents_cb has got the document
DoclistChanged(d, linked) ==
    Then(Then(DocumentBecomes(d, linked), SetupPrintSettings), SetupSheetList)

\* the part of the dialog, written into the dialog's variables; a new
\* ItemsSource of sheets_lb leaves no sheet selected
DialogBecomes(d) ==
    /\ is_linked' = d.is_linked
    /\ selected_schedule' = d.schedule
    /\ selected_print_setting' = d.psetting
    /\ init_psettings' = d.init
    /\ combine_print' = d.combine
    /\ combine_enabled' = d.enabled
    /\ scheduled_sheets' = d.scheduled
    /\ sheet_list' = d.sheet_list
    /\ include_placeholders' = d.include
    /\ index_digits' = d.digits
    /\ settingAtSelection' = d.at_selection
    /\ selected_sheets' = <<>>

\* the current print setting of a document when the dialog opens: a named
\* one or the in-session one
StartSettings(d) == {[doc |-> d, name |-> "A3"], InSessionOf(d)}

\* the window after its construction: the host document has the sheets
\* 1..MaxDialogSheets, the second of them a placeholder, the linked document
\* has two sheets, and doclist_changed has run for the host document
InitDialog ==
    /\ sheetNumber = [s \in 1..(MaxDialogSheets + 2) |-> DialogSheetNumber(s)]
    /\ sheetName = [s \in 1..(MaxDialogSheets + 2) |-> DialogSheetName(s)]
    /\ canBePrinted = [s \in 1..(MaxDialogSheets + 2) |-> s # 2]
    /\ schedFile = [readable |-> FALSE, lines |-> <<>>]
    /\ viewSheetSets \in {EmptyFun, [x \in {OrderedPrintSet} |-> {1}]}
    /\ printJobs = <<>>
    /\ startNumber = sheetNumber
    /\ startSets = viewSheetSets
    /\ currentPrintSetting \in
          {f \in [Documents -> UNION {StartSettings(d) : d \in Documents}] :
              \A d \in Documents : f[d] \in StartSettings(d)}
    /\ startSetting = currentPrintSetting
    /\ doc_schedules \in
          {f \in [Documents -> HostScheduleLists \cup LinkedScheduleLists] :
              f[Host] \in HostScheduleLists /\ f[Linked] \in LinkedScheduleLists}
    /\ reverse_print = FALSE
    /\ show_placeholders = FALSE
    /\ index_start = 0
    /\ naming_format = 0
    /\ \E combine \in BOOLEAN :
          LET d == DoclistChanged(BlankDialog(combine), FALSE)
          IN /\ is_linked = d.is_linked
             /\ selected_schedule = d.schedule
             /\ selected_print_setting = d.psetting
             /\ init_psettings = d.init
             /\ combine_print = d.combine
             /\ combine_enabled = d.enabled
             /\ scheduled_sheets = d.scheduled
             /\ sheet_list = d.sheet_list
             /\ include_placeholders = d.include
             /\ index_digits = d.digits
             /\ settingAtSelection = d.at_selection
    /\ selected_sheets = <<>>
    /\ dialog_open = TRUE
    /\ last_click = NoClick
    /\ IdleRun
    /\ pc = "dialog"

\* what doclist_changed and sheetlist_changed leave alone
DialogFrame ==
    /\ UNCHANGED <<docVars, runVars, histVars, currentPrintSetting>>
    /\ UNCHANGED <<reverse_print, show_placeholders, index_start, naming_format>>
    /\ UNCHANGED <<doc_schedules, dialog_open, last_click, startSets, startSetting>>

\* another document is selected in documents_cb: doclist_changed
DocumentSelected ==
    /\ pc = "dialog"
    /\ DialogBecomes(DoclistChanged(Dialog, ~is_linked))
    /\ DialogFrame

\* another schedule is selected in schedules_cb: sheetlist_changed
ScheduleSelected ==
    /\ pc = "dialog"
    /\ \E schedule \in Range(doc_schedules[SelectedDoc]) \ {selected_schedule} :
          DialogBecomes(SheetlistChanged([Dialog EXCEPT !.schedule = schedule]))
    /\ DialogFrame

\* the items of printsettings_cb
PrintSettingItems ==
    (IF is_linked THEN {} ELSE {VariablePaperPrintSettingListItem})
    \cup {PrintSettingListItem(setting) : setting \in NamedSettings(SelectedDoc)}
    \cup (IF IsInSession(currentPrintSetting[SelectedDoc])
          THEN {PrintSettingListItem(currentPrintSetting[SelectedDoc])} ELSE {})

\* another print setting is selected in printsettings_cb, which is enabled
\* while the document is not a linked one: sheetlist_changed
PrintSettingSelected ==
    /\ pc = "dialog"
    /\ ~is_linked
    /\ \E item \in PrintSettingItems \ {selected_print_setting} :
          DialogBecomes(SheetlistChanged([Dialog EXCEPT !.psetting = item]))
    /\ DialogFrame

\* combine_cb is clicked, which it can be while it is enabled: options_changed
CombineClicked ==
    /\ pc = "dialog"
    /\ combine_enabled
    /\ DialogBecomes(WithOptionsChanged([Dialog EXCEPT !.combine = ~combine_print]))
    /\ DialogFrame

\* the first sheet of the list is selected in sheets_lb, or the selection is
\* taken away
SheetsSelected ==
    /\ pc = "dialog"
    /\ sheet_list # <<>>
    /\ selected_sheets' = IF selected_sheets = <<>> THEN <<sheet_list[1]>> ELSE <<>>
    /\ UNCHANGED <<docVars, dlgVars, runVars, histVars, currentPrintSetting, sessKept>>

\* print_sheets without the test of the sheet list
PrintSheetsOutcomeNoListTest(listed, combine, targets, confirmed) ==
    IF ~combine /\ targets > ConfirmAbove /\ ~confirmed THEN "declined"
    ELSE "print"

\* print_sheets, lines 781-801: what the handler does, for the length of the
\* displayed list, the combine option, the number of target sheets and the
\* answer to the confirmation
PrintSheetsOutcome(listed, combine, targets, confirmed) ==
    IF listed = 0 THEN "nothing"
    ELSE IF ~combine /\ targets > ConfirmAbove /\ ~confirmed THEN "declined"
    ELSE "print"

\* the print button is clicked: print_sheets up to the call of a print routine
PrintSheets ==
    /\ pc = "dialog"
    /\ \E selected_only \in (IF selected_sheets = <<>> THEN {FALSE} ELSE BOOLEAN) :
          LET targets == IF selected_only THEN selected_sheets ELSE sheet_list
              asked == sheet_list # <<>> /\ ~combine_print
                       /\ Len(targets) > ConfirmAbove
          IN \E confirmed \in (IF asked THEN BOOLEAN ELSE {TRUE}) :
                /\ last_click' = [clicked |-> TRUE,
                                  listed |-> Len(sheet_list),
                                  targets |-> Len(targets),
                                  combine |-> combine_print,
                                  confirmed |-> confirmed]
                /\ IF PrintSheetsOutcome(Len(sheet_list), combine_print,
                                         Len(targets), confirmed) = "print"
                   THEN /\ dialog_open' = FALSE
                        /\ target_sheets' = targets
                        /\ pc' = IF combine_print THEN "combined" ELSE "individual"
                   ELSE UNCHANGED <<dialog_open, target_sheets, pc>>
    /\ UNCHANGED <<docVars, dlgVars, histVars, currentPrintSetting>>
    /\ UNCHANGED <<idx, original_sheetnums, sheet_set, groupStart, sched_data,
                   ordered, print_mgr>>
    /\ UNCHANGED <<doc_schedules, selected_schedule, selected_print_setting,
                   init_psettings, combine_print, combine_enabled, startSets,
                   startSetting, settingAtSelection, selected_sheets>>

\* the setting _reset_psettings leaves as the current one
ResetSetting(init, current) == IF init # NoSetting THEN init ELSE current

\* print_sheets, line 810: the print routine has returned and _reset_psettings runs
ResetPsettings ==
    /\ pc \in {"returned", "no_print_manager"}
    /\ currentPrintSetting' =
          [currentPrintSetting EXCEPT
              ![SelectedDoc] = ResetSetting(init_psettings, @)]
    /\ pc' = "done"
    /\ UNCHANGED <<docVars, dlgVars, sessVars, histVars>>
    /\ UNCHANGED <<target_sheets, idx, original_sheetnums, sheet_set, groupStart,
                   sched_data, ordered, print_mgr>>

\* _reset_psettings when _get_printmanager returns None, so that
\* print_mgr.PrintSetup raises, or when the host refuses the print setting
ResetPsettingsRaises ==
    /\ pc \in {"returned", "no_print_manager"}
    /\ init_psettings # NoSetting
    /\ pc' = "raised"
    /\ UNCHANGED <<docVars, dlgVars, sessVars, histVars, currentPrintSetting>>
    /\ UNCHANGED <<target_sheets, idx, original_sheetnums, sheet_set, groupStart,
                   sched_data, ordered, print_mgr>>

\* the events of the dialog and the steps of the routines print_sheets calls.
\* The sheet numbers of the documents of these runs hold no marker, so the
\* host refuses no number.
NextDialog ==
    \/ DocumentSelected
    \/ ScheduleSelected
    \/ PrintSettingSelected
    \/ CombineClicked
    \/ ReverseClicked
    \/ PlaceholderClicked
    \/ SheetsSelected
    \/ PrintSheets
    \/ CombinedGetPrintManager
    \/ SetPrinterSettings
    \/ FixSheetNumber
    \/ FixSheetNumbersCommit
    \/ RemovePreviousPrintSet
    \/ UpdateOrderedPrintSet
    \/ UpdateOrderedPrintSetRaises
    \/ SetJobConfiguration
    \/ SetJobConfigurationExits
    \/ SubmitPrintCombined
    \/ SubmitPrintCombinedRaises
    \/ RestoreSheetNumber
    \/ CombinedReturns
    \/ LocalGetPrintManager
    \/ LocalPrintSheet
    \/ LocalPrintSheetRaises
    \/ LocalPrintReturns
    \/ LinkedGetPrintManager
    \/ LinkedPrintSheet
    \/ LinkedPrintSheetRaises
    \/ LinkedPrintReturns
    \/ ResetPsettings
    \/ ResetPsettingsRaises

SpecDialog == InitDialog /\ [][NextDialog]_vars

---------------------------------------------------------------------------
(* Claims about the dialog                                                 *)

\* C11: in a combined print the sheets come out of the job in schedule order
\* when reverse is unchecked and in the reverse of the schedule order when it
\* is checked, the host printing the sheet set sorted by sheet number and
\* reversed under PrintOrderReverse.
C11_ReverseInCombinedPrint ==
    \A j \in 1..Len(printJobs) :
        printJobs[j].kind = "combined" =>
            LET printed == printJobs[j].sheets
                InJob(s) == s \in Range(printed)
                scheduled == SelectSeq(SheetsOf(scheduled_sheets), InJob)
            IN printed = IF reverse_print THEN Reverse(scheduled) ELSE scheduled

\* C12: while the dialog is open, a linked document, or a selected schedule
\* together with the variable-paper print setting, has the combine checkbox
\* unchecked and disabled; and _print_combined_sheets_in_order is never entered
\* for a linked document or with the variable-paper print setting selected.
C12_CombineGuard ==
    /\ (dialog_open
        /\ (is_linked
            \/ (selected_schedule # NoSchedule
                /\ selected_print_setting.allows_variable_paper)))
          => (~combine_print /\ ~combine_enabled)
    /\ (pc = "combined")
          => (~is_linked /\ ~selected_print_setting.allows_variable_paper)

\* the combined print is entered for the host document after the linked
\* document, whose print setting _init_psettings still holds, was selected and
\* left again
C12_Witness ==
    /\ pc = "combined"
    /\ init_psettings.doc = Linked
    /\ selected_schedule # NoSchedule
    /\ Len(target_sheets) >= 2

\* no sheet number, sheet set or print setting differs from the ones the
\* dialog opened with, and no print job is submitted
HostUnchanged ==
    /\ sheetNumber = startNumber
    /\ viewSheetSets = startSets
    /\ currentPrintSetting = startSetting
    /\ printJobs = <<>>

\* the last click on the print button found an empty list
ClickedOnEmptyList == last_click.clicked /\ last_click.listed = 0

\* the last click on the print button was for more than 5 sheets to be
\* printed one by one, and the confirmation was declined
ClickedAndDeclined ==
    /\ last_click.clicked
    /\ last_click.listed > 0
    /\ ~last_click.combine
    /\ last_click.targets > 5
    /\ ~last_click.confirmed

\* C13: after print_sheets on an empty list, and after print_sheets with
\* combine unchecked, more than 5 target sheets and the confirmation declined,
\* the dialog is open, no print job is submitted and no sheet number, sheet
\* set or print setting is changed; after print_sheets in every other case the
\* dialog is closed, and no print job is ever submitted while it is open.
C13_PrintSheetsGuards ==
    /\ ClickedOnEmptyList => (dialog_open /\ pc = "dialog" /\ HostUnchanged)
    /\ ClickedAndDeclined => (dialog_open /\ pc = "dialog" /\ HostUnchanged)
    /\ (last_click.clicked /\ ~ClickedOnEmptyList /\ ~ClickedAndDeclined)
          => ~dialog_open
    /\ (printJobs # <<>>) => ~dialog_open
    /\ dialog_open => HostUnchanged

\* the confirmation for six sheets to be printed one by one was declined
C13_Witness ==
    /\ ClickedAndDeclined
    /\ last_click.targets = 6
    /\ dialog_open

\* C14: after print_sheets has run a print to its end, the current print
\* setting of the selected document is the print setting that was current for
\* that document when it was selected in the dialog.
C14_PrintSettingRestored ==
    (pc = "done" /\ print_mgr = "available")
        => currentPrintSetting[SelectedDoc] = settingAtSelection

\* the part of it that holds: a named print setting that was current when the
\* document was selected is current again after the print
NamedPrintSettingRestored ==
    (pc = "done" /\ ~IsInSession(settingAtSelection))
        => currentPrintSetting[SelectedDoc] = settingAtSelection

\* a print of the linked document has ended and left it with a print setting
\* of the host document
StalePrintSettingWritten ==
    /\ pc = "done"
    /\ is_linked
    /\ currentPrintSetting[Linked].doc = Host

\* C15: a print routine that got no print manager has renamed no sheet,
\* created or deleted no sheet set, submitted no print job and taken no step.
C15_NoPrintManagerNoEffect ==
    (print_mgr = "none") =>
        /\ sheetNumber = startNumber
        /\ viewSheetSets = startSets
        /\ printJobs = <<>>
        /\ events = <<>>

\* the combined print of a document that has a sheet set 'OrderedPrintSet'
\* returned for want of a print manager
C15_Witness ==
    /\ print_mgr = "none"
    /\ pc = "no_print_manager"
    /\ last_click.combine
    /\ OrderedPrintSet \in DOMAIN viewSheetSets
    /\ Len(target_sheets) >= 2

=============================================================================
